---- MODULE Spec2Model ----
(***************************************************************************)
(* Model of main.py: the mail parser that extracts IPv4/IPv6 addresses and *)
(* domains from an .eml file, stores them through the DbConnection         *)
(* singleton, prints the grouped rows and searches the mail header.        *)
(*                                                                         *)
(* Python str values are sequences of one-character strings, positions are *)
(* 0-based as in Python, None is <<>> and a present value x is <<x>>.      *)
(*                                                                         *)
(* The server is modelled as mysql.connector drives it by default:         *)
(* autocommit off on a transactional engine, so inserted rows are pending  *)
(* until conn.commit() and are rolled back when the process dies; DROP and *)
(* CREATE take effect at once.  An exception nothing catches ends the      *)
(* process with status 1.  Not modelled: logging and the -cl flag, a       *)
(* malformed db_conf.json, TLD tokens or search strings holding regex      *)
(* syntax other than letters, '.' and a postfix '*'.                       *)
(***************************************************************************)
EXTENDS Integers, Sequences, FiniteSets, TLC

VARIABLES
    pc,              \* position of the running program
    exit_code,       \* -1 while the process runs, else the process exit status
    args,            \* argparse namespace: pattern, substring, mail_path
    db_conf,         \* arguments of the latest DbConnection(...) call
    instance,        \* DbConnection._instance and its attributes
    constructions,   \* number of DbConnection(...) calls made so far
    tbl_ips,         \* server: committed rows of table ips (None: no table)
    tbl_domains,     \* server: committed rows of table domains
    tx,              \* rows the open connection inserted and has not committed
    calls,           \* connector calls issued so far, with their outcome
    mail_text,       \* content of the mail file
    matches,         \* ip_v4, ip_v6, doms found by parse_mail
    todo,            \* statements parse_mail has still to execute
    head,            \* result of get_header
    SEARCH_RESULTS,  \* result of header_search
    stdout           \* lines printed to the console

vars == <<pc, exit_code, args, db_conf, instance, constructions, tbl_ips,
          tbl_domains, tx, calls, mail_text, matches, todo, head,
          SEARCH_RESULTS, stdout>>

None == <<>>

Some(x) == <<x>>

\* ------------------------------------------------------------------------
\* Python str and re primitives
\* ------------------------------------------------------------------------
\* Character classes \d, [\dA-Fa-f] and \w (ASCII part).
Digits == {"0", "1", "2", "3", "4", "5", "6", "7", "8", "9"}

HexDigits == Digits \cup {"a", "b", "c", "d", "e", "f", "A", "B", "C", "D", "E", "F"}

Letters == {"a", "b", "c", "d", "e", "f", "g", "h", "i", "j", "k", "l", "m",
            "n", "o", "p", "q", "r", "s", "t", "u", "v", "w", "x", "y", "z",
            "A", "B", "C", "D", "E", "F", "G", "H", "I", "J", "K", "L", "M",
            "N", "O", "P", "Q", "R", "S", "T", "U", "V", "W", "X", "Y", "Z"}

WordChars == Letters \cup Digits \cup {"_"}

\* text[i], or "" where Python has no character (outside the string).
At(text, i) == IF i >= 0 /\ i < Len(text) THEN text[i + 1] ELSE ""

\* text[a:b] for 0 <= a <= b <= len(text).
Slice(text, a, b) == SubSeq(text, a + 1, b)

\* text[:e]; a negative e counts from the end, as Python slices do.
SliceTo(text, e) ==
    LET n == Len(text)
        hi == IF e < 0 THEN (IF n + e < 0 THEN 0 ELSE n + e)
              ELSE (IF e > n THEN n ELSE e)
    IN SubSeq(text, 1, hi)

StartsWithAt(text, i, sub) ==
    /\ i + Len(sub) <= Len(text)
    /\ \A k \in 1..Len(sub) : text[i + k] = sub[k]

\* str.find: lowest index of sub in text, -1 when there is none.
RECURSIVE FindFrom(_, _, _)
FindFrom(text, sub, i) ==
    IF i + Len(sub) > Len(text) THEN -1
    ELSE IF StartsWithAt(text, i, sub) THEN i
    ELSE FindFrom(text, sub, i + 1)

Find(text, sub) == FindFrom(text, sub, 0)

\* str.rfind: highest index of sub in text, -1 when there is none.
RECURSIVE RFindFrom(_, _, _)
RFindFrom(text, sub, i) ==
    IF i < 0 THEN -1
    ELSE IF StartsWithAt(text, i, sub) THEN i
    ELSE RFindFrom(text, sub, i - 1)

RFind(text, sub) == RFindFrom(text, sub, Len(text) - Len(sub))

\* str.replace for a one-character old.
RECURSIVE ReplaceChar(_, _, _)
ReplaceChar(text, old, new) ==
    IF text = <<>> THEN <<>>
    ELSE <<IF Head(text) = old THEN new ELSE Head(text)>>
         \o ReplaceChar(Tail(text), old, new)

\* Length of the longest run of characters of class starting at text[i].
RECURSIVE RunLen(_, _, _)
RunLen(text, i, class) ==
    IF At(text, i) \in class THEN 1 + RunLen(text, i + 1, class) ELSE 0

\* (?<!\w|\.) at position i.
LookbehindOk(text, i) == At(text, i - 1) \notin (WordChars \cup {"."})

\* (?!\.?\w) at position i.
LookaheadOk(text, i) ==
    ~ \/ At(text, i) \in WordChars
      \/ (At(text, i) = "." /\ At(text, i + 1) \in WordChars)

\* IPv4 pattern \d{1,3}(?:\.\d{1,3}){3}.  Each \d{1,3} is followed by "\." or by
\* the lookahead, neither of which accepts a digit, so backtracking can only
\* succeed with the group taking the whole run of digits, of length 1 to 3.
\* End position of the match of \d{1,3} at i, -1 for no match.
DigitGroupEnd(text, i) ==
    LET r == RunLen(text, i, Digits)
    IN IF r >= 1 /\ r <= 3 THEN i + r ELSE -1

DottedGroupEnd(text, i) ==
    IF i >= 0 /\ At(text, i) = "." THEN DigitGroupEnd(text, i + 1) ELSE -1

MatchV4(text, i) ==
    LET e1 == DigitGroupEnd(text, i)
        e2 == DottedGroupEnd(text, e1)
        e3 == DottedGroupEnd(text, e2)
        e4 == DottedGroupEnd(text, e3)
    IN IF LookbehindOk(text, i) /\ e4 >= 0 /\ LookaheadOk(text, e4) THEN e4 ELSE -1

\* IPv6 pattern [\dA-Fa-f]{0,4}(?::[\dA-Fa-f]{0,4}){4,8}.  A group of hex
\* digits is followed by ":" or by the lookahead, so it too must take the
\* whole run (0 to 4 long).  End of one ":" group at p, -1 for no match.
HexSegEnd(text, p) ==
    LET r == RunLen(text, p + 1, HexDigits)
    IN IF At(text, p) = ":" /\ r <= 4 THEN p + 1 + r ELSE -1

\* The greedy {4,8}: after n groups ending at p, prefer one more group, and
\* fall back to stopping here when n >= 4 and the lookahead accepts.
RECURSIVE V6Tail(_, _, _)
V6Tail(text, p, n) ==
    LET q == HexSegEnd(text, p)
        deeper == IF n < 8 /\ q >= 0 THEN V6Tail(text, q, n + 1) ELSE -1
    IN IF deeper >= 0 THEN deeper
       ELSE IF n >= 4 /\ LookaheadOk(text, p) THEN p
       ELSE -1

MatchV6(text, i) ==
    LET r == RunLen(text, i, HexDigits)
    IN IF LookbehindOk(text, i) /\ r <= 4 THEN V6Tail(text, i + r, 0) ELSE -1

\* The alternatives of the TLD alternation, in order.
RECURSIVE SplitOn(_, _)
SplitOn(text, sep) ==
    LET i == Find(text, <<sep>>)
    IN IF i < 0 THEN <<text>>
       ELSE <<Slice(text, 0, i)>> \o SplitOn(SubSeq(text, i + 2, Len(text)), sep)

\* (?:tld1|tld2|...) then the lookahead, at p: the first alternative that
\* matches literally and is accepted by the lookahead.
RECURSIVE TldEnd(_, _, _)
TldEnd(text, p, alts) ==
    IF alts = <<>> THEN -1
    ELSE IF StartsWithAt(text, p, Head(alts))
            /\ LookaheadOk(text, p + Len(Head(alts)))
         THEN p + Len(Head(alts))
    ELSE TldEnd(text, p, Tail(alts))

\* Domain pattern [\w\-]+(?:\.\w+)*(?:\.(?:TLD)).  Every label is followed
\* by "\.", so it takes its whole run; the greedy star prefers a further
\* ".label" and falls back to closing with ".TLD" at p.
RECURSIVE DomTail(_, _, _)
DomTail(text, p, alts) ==
    LET r == RunLen(text, p + 1, WordChars)
        deeper == IF At(text, p) = "." /\ r >= 1
                  THEN DomTail(text, p + 1 + r, alts) ELSE -1
    IN IF deeper >= 0 THEN deeper
       ELSE IF At(text, p) = "." THEN TldEnd(text, p + 1, alts)
       ELSE -1

MatchDom(text, i, tld) ==
    LET r == RunLen(text, i, WordChars \cup {"-"})
    IN IF LookbehindOk(text, i) /\ r >= 1
       THEN DomTail(text, i + r, SplitOn(tld, "|")) ELSE -1

\* re.findall for the three patterns: scan left to right, take the match at
\* the first position that has one, go on from its end (matches are never
\* empty).  The single group of each pattern is the whole match.
RECURSIVE FindAllV4(_, _)
FindAllV4(text, pos) ==
    IF pos > Len(text) THEN <<>>
    ELSE LET e == MatchV4(text, pos)
         IN IF e >= 0 THEN <<Slice(text, pos, e)>> \o FindAllV4(text, e)
            ELSE FindAllV4(text, pos + 1)

RECURSIVE FindAllV6(_, _)
FindAllV6(text, pos) ==
    IF pos > Len(text) THEN <<>>
    ELSE LET e == MatchV6(text, pos)
         IN IF e >= 0 THEN <<Slice(text, pos, e)>> \o FindAllV6(text, e)
            ELSE FindAllV6(text, pos + 1)

RECURSIVE FindAllDom(_, _, _)
FindAllDom(text, pos, tld) ==
    IF pos > Len(text) THEN <<>>
    ELSE LET e == MatchDom(text, pos, tld)
         IN IF e >= 0 THEN <<Slice(text, pos, e)>> \o FindAllDom(text, e, tld)
            ELSE FindAllDom(text, pos + 1, tld)

DefaultTld == <<"c","o","m","|","o","r","g","|","n","e","t","|","i","n","t","|",
                "e","d","u","|","g","o","v","|","m","i","l","|","a","r","p","a">>

\* tldFile is the content of TLD.conf, None when the file is missing.
tld_config(tldFile) ==
    LET tld_list == IF tldFile = <<>> THEN DefaultTld ELSE tldFile[1]
        last_n == RFind(tld_list, <<"\n">>)
        stripped == IF Len(tld_list) - last_n = 1 THEN SliceTo(tld_list, last_n)
                    ELSE tld_list
    IN ReplaceChar(stripped, "\n", "|")

\* re.findall(pattern, text) for patterns made of literal characters, "."
\* and a postfix "*", which covers ".*" + substring + ".*".  An atom is one
\* character (or ".") with or without a star.
RECURSIVE ParseAtoms(_, _)
ParseAtoms(p, i) ==
    IF i > Len(p) THEN <<>>
    ELSE LET star == i + 1 <= Len(p) /\ p[i + 1] = "*"
         IN <<[ch |-> p[i], star |-> star]>>
            \o ParseAtoms(p, IF star THEN i + 2 ELSE i + 1)

AtomMatches(atom, c) ==
    /\ c # ""
    /\ IF atom.ch = "." THEN c # "\n" ELSE c = atom.ch

RECURSIVE AtomRun(_, _, _)
AtomRun(atom, text, i) ==
    IF AtomMatches(atom, At(text, i)) THEN 1 + AtomRun(atom, text, i + 1) ELSE 0

\* End positions of the matches of atoms k.. at pos, in the order the
\* backtracking matcher tries them (a star takes the longest run first).
RECURSIVE MatchEnds(_, _, _, _)
RECURSIVE StarEnds(_, _, _, _, _)
MatchEnds(atoms, k, text, pos) ==
    IF k > Len(atoms) THEN <<pos>>
    ELSE IF atoms[k].star
         THEN StarEnds(atoms, k, text, pos, AtomRun(atoms[k], text, pos))
    ELSE IF AtomMatches(atoms[k], At(text, pos))
         THEN MatchEnds(atoms, k + 1, text, pos + 1)
    ELSE <<>>

StarEnds(atoms, k, text, pos, j) ==
    IF j < 0 THEN <<>>
    ELSE MatchEnds(atoms, k + 1, text, pos + j) \o StarEnds(atoms, k, text, pos, j - 1)

\* The match the matcher reports; right after an empty match it refuses
\* another empty match at the same position.
FirstEnd(ends, pos, mustAdvance) ==
    LET ok == SelectSeq(ends, LAMBDA e : ~(mustAdvance /\ e = pos))
    IN IF ok = <<>> THEN -1 ELSE Head(ok)

RECURSIVE FindAllFrom(_, _, _, _, _)
FindAllFrom(atoms, text, start, pos, mustAdvance) ==
    IF pos > Len(text) THEN <<>>
    ELSE LET e == FirstEnd(MatchEnds(atoms, 1, text, pos), pos,
                           mustAdvance /\ pos = start)
         IN IF e >= 0
            THEN <<Slice(text, pos, e)>> \o FindAllFrom(atoms, text, e, e, e = pos)
            ELSE FindAllFrom(atoms, text, start, pos + 1, mustAdvance)

re_findall(pattern, text) == FindAllFrom(ParseAtoms(pattern, 1), text, 0, 0, FALSE)

\* ------------------------------------------------------------------------
\* Inputs: mail documents, TLD.conf contents, command-line values
\* ------------------------------------------------------------------------
MaxPieces == 2

Marker == <<"<", "!", "D", "O", "C", "T", "Y", "P", "E", " ", "h", "t", "m", "l">>

Pieces ==
    { <<"1", ".", "2", ".", "3", ".", "4", " ">>,
      <<":", ":", "1", ":", "2", ":", "3", " ">>,
      <<"a", ".", "c", "o", "m", " ">>,
      <<"F", ":", "x", "\n">>,
      Marker }

RECURSIVE DocsUpTo(_)
DocsUpTo(n) ==
    IF n = 0 THEN {<<>>}
    ELSE LET prev == DocsUpTo(n - 1)
         IN prev \cup {d \o p : d \in prev, p \in Pieces}

Documents == DocsUpTo(MaxPieces)

\* TLD.conf: missing, or one token per line with or without a final newline.
TldFiles ==
    { None,
      Some(<<"c", "o", "m", "\n", "o", "r", "g", "\n">>),
      Some(<<"o", "r", "g">>) }

\* Values of -hp / -hs, and of header_search's substring and pattern.
SearchStrings == {<<>>, <<"F">>, <<"x", "*">>, <<".", "*", "a">>}

\* What argparse leaves in args.pattern and args.substring: None for a flag
\* that was not given, else the string that followed it.
FlagValues == {None, Some(<<>>), Some(<<"F">>)}

MailPaths == {<<"m", ".", "e", "m", "l">>, <<"m", ".", "t", "x", "t">>}

\* Contents of db_conf.json.
DbConfs ==
    [host : {"127.0.0.1"}, port : {3306}, user : {"root"},
     password : {"", "secret"}, db : {"", "maildb"}]

\* Arguments a caller may hand to DbConnection(...).
ClientConfs ==
    [host : {"127.0.0.1"}, port : {3306}, user : {"root", "app"},
     password : {"", "secret"}, db : {"", "maildb"}]

\* ------------------------------------------------------------------------
\* The MySQL server as seen through mysql.connector
\* ------------------------------------------------------------------------
EmptyTable == Some(<<>>)

ConnectOutcomes == {"connected", "not_connected", "error"}

ResetFaults == {"none", "drop_ips", "create_ips", "drop_domains", "create_domains"}

Call(op, table, result) == [op |-> op, table |-> table, result |-> result]

\* One try/except/finally block of recreate_tables.  DROP of a missing table
\* raises ProgrammingError, which is passed over; fault "drop" is any other
\* mysql error, which leaves the finally clause to run and then propagates;
\* CREATE fails on fault "create" or when the table is still there.
DropCreate(tbl, name, fault) ==
    LET dropErr == fault = "drop"
        dropResult == IF dropErr THEN "error"
                      ELSE IF tbl = None THEN "no_table" ELSE "ok"
        afterDrop == IF dropErr THEN tbl ELSE None
        createErr == fault = "create" \/ afterDrop # None
        afterCreate == IF createErr THEN afterDrop ELSE EmptyTable
    IN [tbl |-> afterCreate,
        ok |-> ~dropErr /\ ~createErr,
        calls |-> <<Call("drop", name, dropResult),
                    Call("create", name, IF createErr THEN "error" ELSE "ok")>>]

recreate_tables(ips, domains, fault) ==
    LET a == DropCreate(ips, "ips",
                        IF fault = "drop_ips" THEN "drop"
                        ELSE IF fault = "create_ips" THEN "create" ELSE "none")
        b == DropCreate(domains, "domains",
                        IF fault = "drop_domains" THEN "drop"
                        ELSE IF fault = "create_domains" THEN "create" ELSE "none")
    IN IF a.ok
       THEN [ips |-> a.tbl, domains |-> b.tbl, ok |-> b.ok, calls |-> a.calls \o b.calls]
       ELSE [ips |-> a.tbl, domains |-> domains, ok |-> FALSE, calls |-> a.calls]

\* ------------------------------------------------------------------------
\* class DbConnection
\* ------------------------------------------------------------------------
Unset == "<unset>"

NoAttributes ==
    [host |-> Unset, port |-> 0, user |-> Unset, password |-> Unset,
     data_base |-> Unset, conn |-> Unset]

\* __new__: the class attribute _instance is created once and then reused.
DbConnection_new(inst) == IF inst = None THEN NoAttributes ELSE inst[1]

\* Variant of InitExits that tests the password only.
InitExits_db_unchecked(password, data_base) == password = ""

\* __init__, the two sys.exit(2) guards.

InitExits(password, data_base) == password = "" \/ data_base = ""

\* Variant of ConnAfterConnect that keeps the connection when
\* recreate_tables raised.
ConnAfterConnect_keep_on_error(outcome, resetOk) ==
    IF outcome = "connected" THEN "open" ELSE "None"

\* __init__, the value self.conn is left with after the try block.

ConnAfterConnect(outcome, resetOk) ==
    IF outcome = "connected" /\ resetOk THEN "open" ELSE "None"

\* Attributes __init__ has assigned when it returns or exits.
InitAttributes(old, cfg, conn) ==
    LET a1 == [old EXCEPT !.host = cfg.host, !.port = cfg.port, !.user = cfg.user]
        a2 == [a1 EXCEPT !.password = cfg.password]
        a3 == [a2 EXCEPT !.data_base = cfg.db]
    IN IF cfg.password = "" THEN a1
       ELSE IF cfg.db = "" THEN a2
       ELSE [a3 EXCEPT !.conn = conn]

\* DbConnection(host, port, user, password, data_base): __new__ then __init__.
\* Python runs __init__ on whatever __new__ returns, on every call.
DbConnection(cfg, outcome, fault) ==
    LET old == DbConnection_new(instance)
        reset == recreate_tables(tbl_ips, tbl_domains, fault)
        connected == outcome = "connected"
        conn == ConnAfterConnect(outcome, reset.ok)
    IN /\ db_conf' = Some(cfg)
       /\ constructions' = constructions + 1
       /\ instance' = Some(InitAttributes(old, cfg, conn))
       /\ tx' = <<>>
       /\ IF InitExits(cfg.password, cfg.db)
          THEN UNCHANGED <<tbl_ips, tbl_domains, calls>>
          ELSE /\ calls' = calls
                    \o <<Call("connect", "", IF outcome = "error" THEN "error" ELSE "ok")>>
                    \o (IF connected THEN reset.calls ELSE <<>>)
               /\ tbl_ips' = IF connected THEN reset.ips ELSE tbl_ips
               /\ tbl_domains' = IF connected THEN reset.domains ELSE tbl_domains

\* ------------------------------------------------------------------------
\* Process exit and the statements of parse_mail
\* ------------------------------------------------------------------------
Exit(code) == pc' = "done" /\ exit_code' = code

InsertStmt(table, value) == [op |-> "insert", table |-> table, value |-> value]

CommitStmt == [op |-> "commit", table |-> "", value |-> <<>>]

Inserts(table, values) == [i \in 1..Len(values) |-> InsertStmt(table, values[i])]

RECURSIVE CommitEach(_)
CommitEach(stmts) ==
    IF stmts = <<>> THEN <<>> ELSE <<Head(stmts), CommitStmt>> \o CommitEach(Tail(stmts))

RECURSIVE Dedup(_)
Dedup(values) ==
    IF values = <<>> THEN <<>>
    ELSE LET front == SubSeq(values, 1, Len(values) - 1)
             last == values[Len(values)]
         IN IF \E i \in 1..Len(front) : front[i] = last
            THEN Dedup(front) ELSE Append(Dedup(front), last)

\* Variant of ParseMailStatements that commits inside the loops.
ParseMailStatements_commit_each(ip_v4, ip_v6, doms) ==
    CommitEach(Inserts("ips", ip_v4) \o Inserts("ips", ip_v6) \o Inserts("domains", doms))
    \o <<CommitStmt>>

\* Variant of ParseMailStatements that stores each value once.
ParseMailStatements_dedup(ip_v4, ip_v6, doms) ==
    Inserts("ips", Dedup(ip_v4 \o ip_v6)) \o Inserts("domains", Dedup(doms))
    \o <<CommitStmt>>

\* The cursor.execute and commit calls of parse_mail, in program order.
ParseMailStatements(ip_v4, ip_v6, doms) ==
    Inserts("ips", ip_v4) \o Inserts("ips", ip_v6) \o Inserts("domains", doms)
    \o <<CommitStmt>>

TableOf(name) == IF name = "ips" THEN tbl_ips ELSE tbl_domains

TxValues(name) ==
    LET rows == SelectSeq(tx, LAMBDA r : r.table = name)
    IN [i \in 1..Len(rows) |-> rows[i].value]

\* Rows a SELECT of the open connection sees: committed rows, then its own.
Visible(name) ==
    IF TableOf(name) = None THEN <<>> ELSE TableOf(name)[1] \o TxValues(name)

Committed(tbl, name) == IF tbl = None THEN None ELSE Some(tbl[1] \o TxValues(name))

\* ------------------------------------------------------------------------
\* parse_mail
\* ------------------------------------------------------------------------
\* Type check, the three re.findall calls and conn.cursor().
parse_mail ==
    /\ pc = "parse_mail"
    /\ IF instance[1].conn # "open"
       THEN /\ Exit(1)
            /\ UNCHANGED <<matches, todo>>
       ELSE \E tldFile \in TldFiles :
              LET text == mail_text[1]
                  ip_v4 == FindAllV4(text, 0)
                  ip_v6 == FindAllV6(text, 0)
                  doms == FindAllDom(text, 0, tld_config(tldFile))
              IN /\ matches' = [ip_v4 |-> ip_v4, ip_v6 |-> ip_v6, doms |-> doms]
                 /\ todo' = ParseMailStatements(ip_v4, ip_v6, doms)
                 /\ pc' = "execute"
                 /\ UNCHANGED exit_code
    /\ UNCHANGED <<args, db_conf, instance, constructions, tbl_ips, tbl_domains,
                   tx, calls, mail_text, head, SEARCH_RESULTS, stdout>>

\* One cursor.execute of the insert loops, or the final conn.commit().  A mysql
\* error is not caught anywhere: the process dies with a traceback (status 1)
\* and the server rolls the open transaction back.
ExecuteStatement(ret) ==
    /\ pc = "execute"
    /\ todo # <<>>
    /\ LET s == Head(todo)
       IN \/ /\ s.op = "commit" \/ TableOf(s.table) # None
             /\ calls' = Append(calls, Call(s.op, s.table, "ok"))
             /\ todo' = Tail(todo)
             /\ pc' = IF Tail(todo) = <<>> THEN ret ELSE "execute"
             /\ UNCHANGED exit_code
             /\ IF s.op = "insert"
                THEN /\ tx' = Append(tx, [table |-> s.table, value |-> s.value])
                     /\ UNCHANGED <<tbl_ips, tbl_domains>>
                ELSE /\ tbl_ips' = Committed(tbl_ips, "ips")
                     /\ tbl_domains' = Committed(tbl_domains, "domains")
                     /\ tx' = <<>>
          \/ /\ calls' = Append(calls, Call(s.op, s.table, "error"))
             /\ Exit(1)
             /\ tx' = <<>>
             /\ UNCHANGED <<todo, tbl_ips, tbl_domains>>
    /\ UNCHANGED <<args, db_conf, instance, constructions, mail_text, matches,
                   head, SEARCH_RESULTS, stdout>>

\* ------------------------------------------------------------------------
\* get_header and header_search
\* ------------------------------------------------------------------------
\* Variant of get_header that returns the whole text when find gives -1.
get_header_whole_when_absent(email_content) ==
    LET header_endpoint == Find(email_content, Marker)
    IN IF header_endpoint < 0 THEN email_content
       ELSE SliceTo(email_content, header_endpoint)

\* str.find gives -1 for a missing marker and the slice [:-1] follows.
get_header(email_content) ==
    LET header_endpoint == Find(email_content, Marker)
    IN SliceTo(email_content, header_endpoint)

\* Variant of SearchPattern that lets the pattern win when both are given.
SearchPattern_pattern_wins(substring, pattern) ==
    IF pattern = <<>> /\ substring # <<>>
    THEN Some(<<".", "*">> \o substring \o <<".", "*">>)
    ELSE IF pattern # <<>> THEN Some(pattern)
    ELSE None

\* The if/elif/else that picks the pattern to search with; None is sys.exit(2).
SearchPattern(substring, pattern) ==
    IF pattern = <<>> /\ substring # <<>>
    THEN Some(<<".", "*">> \o substring \o <<".", "*">>)
    ELSE IF pattern # <<>> /\ substring = <<>> THEN Some(pattern)
    ELSE None

header_search(email_content, substring, pattern) ==
    LET hd == get_header(email_content)
        chosen == SearchPattern(substring, pattern)
    IN IF chosen = None
       THEN [exit |-> TRUE, head |-> hd, substrs |-> <<>>]
       ELSE [exit |-> FALSE, head |-> hd, substrs |-> re_findall(chosen[1], hd)]

\* ------------------------------------------------------------------------
\* get_ips_and_domains
\* ------------------------------------------------------------------------
CountOf(values, v) == Cardinality({i \in DOMAIN values : values[i] = v})

\* SELECT v, COUNT(v) ... GROUP BY v ORDER BY COUNT(v) DESC: every order the
\* server may return, rows of equal count being in no fixed order.
GroupedRows(values) ==
    LET V == {values[i] : i \in DOMAIN values}
        n == Cardinality(V)
        orders == {o \in [1..n -> V] :
                     /\ \A i, j \in 1..n : i # j => o[i] # o[j]
                     /\ \A i, j \in 1..n :
                          i < j => CountOf(values, o[i]) >= CountOf(values, o[j])}
    IN {[i \in 1..n |-> [value |-> o[i], count |-> CountOf(values, o[i])]] : o \in orders}

Line(kind, text, count) == [kind |-> kind, text |-> text, count |-> count]

\* count 0 marks a line that shows the value alone.
WithCounts(kind, rows) == [i \in 1..Len(rows) |-> Line(kind, rows[i].value, rows[i].count)]

Bare(kind, rows) == [i \in 1..Len(rows) |-> Line(kind, rows[i].value, 0)]

\* The ips block: rows[0] of an empty result raises IndexError, caught here.
PrintIps(rows) ==
    <<Line("title_ips", <<>>, 0)>> \o
    (IF rows = <<>> THEN <<Line("no_ips", <<>>, 0)>>
     ELSE IF rows[1].count # 1 THEN WithCounts("ip", rows)
     ELSE Bare("ip", rows))

\* The domains block: no else branch, and the handler is for KeyError, so
\* the IndexError of an empty result is not caught.
PrintDomains(rows) ==
    [raised |-> rows = <<>>,
     lines |-> <<Line("title_domains", <<>>, 0)>> \o
               (IF rows # <<>> /\ rows[1].count # 1
                THEN WithCounts("domain", rows) ELSE <<>>)]

get_ips_and_domains ==
    /\ pc = "print"
    /\ \E ipRows \in GroupedRows(Visible("ips")),
          domRows \in GroupedRows(Visible("domains")) :
         LET d == PrintDomains(domRows)
         IN /\ stdout' = stdout \o PrintIps(ipRows) \o d.lines
            /\ Exit(IF d.raised THEN 1 ELSE 0)
    /\ calls' = calls \o <<Call("select", "ips", "ok"), Call("select", "domains", "ok")>>
    /\ UNCHANGED <<args, db_conf, instance, constructions, tbl_ips, tbl_domains,
                   tx, mail_text, matches, todo, head, SEARCH_RESULTS>>

\* ------------------------------------------------------------------------
\* The script body (if __name__ == '__main__')
\* ------------------------------------------------------------------------
\* "if args.pattern:": neither None nor the empty string.
Truthy(opt) == opt # None /\ opt[1] # <<>>

parse_args ==
    /\ pc = "parse_args"
    /\ \E hp \in FlagValues, hs \in FlagValues, path \in MailPaths :
         args' = [pattern |-> hp, substring |-> hs, mail_path |-> path]
    /\ pc' = "start_db"
    /\ UNCHANGED <<exit_code, db_conf, instance, constructions, tbl_ips,
                   tbl_domains, tx, calls, mail_text, matches, todo, head,
                   SEARCH_RESULTS, stdout>>

\* Exits 2 when db_conf.json is missing, when __init__ exits, or when the
\* instance comes back without a connection.
start_db_connection ==
    /\ pc = "start_db"
    /\ \/ /\ Exit(2)
          /\ UNCHANGED <<db_conf, instance, constructions, tbl_ips, tbl_domains,
                         tx, calls>>
       \/ \E cfg \in DbConfs, outcome \in ConnectOutcomes, fault \in ResetFaults :
            /\ DbConnection(cfg, outcome, fault)
            /\ IF InitExits(cfg.password, cfg.db) \/ instance'[1].conn # "open"
               THEN Exit(2)
               ELSE pc' = "open_mail" /\ UNCHANGED exit_code
    /\ UNCHANGED <<args, mail_text, matches, todo, head, SEARCH_RESULTS, stdout>>

\* Exits 2 when the path has no ".eml" in it or the file is missing.
open_mail ==
    /\ pc = "open_mail"
    /\ \/ /\ Find(args.mail_path, <<".", "e", "m", "l">>) = -1
          /\ Exit(2)
          /\ UNCHANGED mail_text
       \/ /\ Find(args.mail_path, <<".", "e", "m", "l">>) # -1
          /\ \/ Exit(2) /\ UNCHANGED mail_text
             \/ \E text \in Documents :
                  /\ mail_text' = Some(text)
                  /\ pc' = "parse_mail"
                  /\ UNCHANGED exit_code
    /\ UNCHANGED <<args, db_conf, instance, constructions, tbl_ips, tbl_domains,
                   tx, calls, matches, todo, head, SEARCH_RESULTS, stdout>>

SearchLines(results) == [i \in 1..Len(results) |-> Line("search", results[i], 0)]

\* SEARCH_RESULTS and its printing: the pattern flag is tried first and the
\* substring flag only when the pattern is missing or empty.
main_header_search ==
    /\ pc = "header_search"
    /\ LET searching == Truthy(args.pattern) \/ Truthy(args.substring)
           r == IF Truthy(args.pattern)
                THEN header_search(mail_text[1], <<>>, args.pattern[1])
                ELSE header_search(mail_text[1], args.substring[1], <<>>)
       IN IF ~searching
          THEN /\ pc' = "print"
               /\ UNCHANGED <<exit_code, head, SEARCH_RESULTS, stdout>>
          ELSE /\ head' = Some(r.head)
               /\ IF r.exit
                  THEN Exit(2) /\ UNCHANGED <<SEARCH_RESULTS, stdout>>
                  ELSE /\ SEARCH_RESULTS' = Some(r.substrs)
                       /\ stdout' = IF r.substrs = <<>> THEN stdout
                                    ELSE stdout \o <<Line("title_search", <<>>, 0)>>
                                                \o SearchLines(r.substrs)
                       /\ pc' = "print"
                       /\ UNCHANGED exit_code
    /\ UNCHANGED <<args, db_conf, instance, constructions, tbl_ips, tbl_domains,
                   tx, calls, mail_text, matches, todo>>

\* Tables a previous run may have left behind on the server.
InitialTables == {<<None, None>>, <<Some(<<<<"o", "l", "d">>>>), None>>,
                  <<Some(<<<<"o", "l", "d">>>>), Some(<<<<"o", "l", "d">>>>)>>}

NoArgs == [pattern |-> None, substring |-> None, mail_path |-> <<>>]

NoMatches == [ip_v4 |-> <<>>, ip_v6 |-> <<>>, doms |-> <<>>]

Start(at) ==
    /\ pc = at
    /\ exit_code = -1
    /\ db_conf = None
    /\ instance = None
    /\ constructions = 0
    /\ \E t \in InitialTables : tbl_ips = t[1] /\ tbl_domains = t[2]
    /\ tx = <<>>
    /\ calls = <<>>
    /\ matches = NoMatches
    /\ todo = <<>>
    /\ head = None
    /\ SEARCH_RESULTS = None
    /\ stdout = <<>>

Init == Start("parse_args") /\ args = NoArgs /\ mail_text = None

Next ==
    \/ parse_args
    \/ start_db_connection
    \/ open_mail
    \/ parse_mail
    \/ ExecuteStatement("header_search")
    \/ main_header_search
    \/ get_ips_and_domains

Spec == Init /\ [][Next]_vars

\* ------------------------------------------------------------------------
\* A client of the module that builds DbConnection objects and calls
\* parse_mail itself, any number of times within the bounds
\* ------------------------------------------------------------------------
MaxConstructions == 2

MaxParseCalls == 1

GatewayDocs ==
    { <<>>,
      <<"1", ".", "2", ".", "3", ".", "4", " ", "a", ".", "c", "o", "m">>,
      <<"a", ".", "c", "o", "m", " ", "a", ".", "c", "o", "m">> }

ParseCalls == Len(SelectSeq(calls, LAMBDA c : c.op = "commit"))

client_construct ==
    /\ pc = "idle"
    /\ constructions < MaxConstructions
    /\ \E cfg \in ClientConfs, outcome \in ConnectOutcomes, fault \in ResetFaults :
         /\ DbConnection(cfg, outcome, fault)
         /\ IF InitExits(cfg.password, cfg.db)
            THEN Exit(2)
            ELSE UNCHANGED <<pc, exit_code>>
    /\ UNCHANGED <<args, mail_text, matches, todo, head, SEARCH_RESULTS, stdout>>

client_parse_mail ==
    /\ pc = "idle"
    /\ instance # None
    /\ ParseCalls < MaxParseCalls
    /\ \E text \in GatewayDocs : mail_text' = Some(text)
    /\ pc' = "parse_mail"
    /\ UNCHANGED <<exit_code, args, db_conf, instance, constructions, tbl_ips,
                   tbl_domains, tx, calls, matches, todo, head, SEARCH_RESULTS,
                   stdout>>

InitGateway == Start("idle") /\ args = NoArgs /\ mail_text = None

NextGateway ==
    \/ client_construct
    \/ client_parse_mail
    \/ parse_mail
    \/ ExecuteStatement("idle")

SpecGateway == InitGateway /\ [][NextGateway]_vars

\* ------------------------------------------------------------------------
\* get_header and header_search called on every document and argument pair
\* ------------------------------------------------------------------------
call_get_header ==
    /\ pc = "call"
    /\ head' = Some(get_header(mail_text[1]))
    /\ pc' = "got_header"
    /\ UNCHANGED <<exit_code, args, db_conf, instance, constructions, tbl_ips,
                   tbl_domains, tx, calls, mail_text, matches, todo,
                   SEARCH_RESULTS, stdout>>

call_header_search ==
    /\ pc = "call"
    /\ LET r == header_search(mail_text[1], args.substring[1], args.pattern[1])
       IN /\ head' = Some(r.head)
          /\ IF r.exit
             THEN Exit(2) /\ UNCHANGED SEARCH_RESULTS
             ELSE /\ SEARCH_RESULTS' = Some(r.substrs)
                  /\ pc' = "returned"
                  /\ UNCHANGED exit_code
    /\ UNCHANGED <<args, db_conf, instance, constructions, tbl_ips, tbl_domains,
                   tx, calls, mail_text, matches, todo, stdout>>

InitSearch ==
    /\ Start("call")
    /\ \E text \in Documents : mail_text = Some(text)
    /\ \E s \in SearchStrings, p \in SearchStrings :
         args = [pattern |-> Some(p), substring |-> Some(s), mail_path |-> <<>>]

NextSearch == call_get_header \/ call_header_search

SpecSearch == InitSearch /\ [][NextSearch]_vars

\* ------------------------------------------------------------------------
\* Properties
\* ------------------------------------------------------------------------
CallsOf(op) == {j \in DOMAIN calls : calls[j].op = op}

NoDbError == \A j \in DOMAIN calls : calls[j].result # "error"

Constructing == constructions' = constructions + 1

Connected == instance # None /\ instance[1].conn = "open"

IsPrefix(a, b) == Len(a) <= Len(b) /\ SubSeq(b, 1, Len(a)) = a

\* C1: constructing DbConnection again once an instance is connected is a
\* no-op: no connector call is issued (so no table is dropped and recreated),
\* the stored rows stay, and the attributes of the first construction stay.
C1_ReconstructionIsNoOp ==
    [][(Connected /\ Constructing) =>
          /\ calls' = calls
          /\ tbl_ips' = tbl_ips /\ tbl_domains' = tbl_domains
          /\ instance' = instance]_vars

ResetCompletedBefore(j) ==
    \E a, b, c, d \in 1..(j - 1) :
        /\ a < b /\ b < c /\ c < d
        /\ calls[a].op = "drop" /\ calls[a].table = "ips" /\ calls[a].result # "error"
        /\ calls[b] = Call("create", "ips", "ok")
        /\ calls[c].op = "drop" /\ calls[c].table = "domains" /\ calls[c].result # "error"
        /\ calls[d] = Call("create", "domains", "ok")

\* C2: every INSERT the run issues comes after a completed reset of both
\* tables: DROP (done, or passed over for a missing table) then CREATE of
\* ips, then the same for domains, all earlier in the run.
C2_ResetBeforeInsert == \A j \in CallsOf("insert") : ResetCompletedBefore(j)

C2_Witness ==
    /\ CallsOf("insert") # {}
    /\ \E j \in CallsOf("drop") : calls[j].result = "no_table"

BothFlags == Truthy(args.pattern) /\ Truthy(args.substring)

\* C3: a run given both -hp and -hs does not get past the header search: it
\* ends with exit code 2 and has no search results.
C3_BothFlagsExit2 ==
    (BothFlags /\ NoDbError /\ pc \in {"print", "done"})
        => (exit_code = 2 /\ SEARCH_RESULTS = None)

\* C4: a run whose preconditions all hold (connection open, tables reset,
\* mail read, no database error, at most one search flag in use) ends with
\* exit code 0, whatever the document holds.
C4_ExitZero ==
    (/\ pc = "done"
     /\ Connected
     /\ mail_text # None
     /\ NoDbError
     /\ ~BothFlags)
        => exit_code = 0

\* C5: DbConnection(...) with an empty password or an empty database name
\* exits with code 2 without any connector call (no connect, no DROP or
\* CREATE, no INSERT) and leaves the tables as they were.
C5_EmptyCredentialsFatal ==
    [][(Constructing /\ (db_conf'[1].password = "" \/ db_conf'[1].db = "")) =>
          /\ exit_code' = 2
          /\ calls' = calls
          /\ tbl_ips' = tbl_ips /\ tbl_domains' = tbl_domains]_vars

C5_Witness ==
    /\ exit_code = 2
    /\ constructions = 2
    /\ db_conf[1].password # "" /\ db_conf[1].db = ""
    /\ tbl_ips # None /\ tbl_ips[1] # <<>>

SearchReturned == pc \in {"returned", "done"}

\* C6: header_search called with both substring and pattern non-empty, or
\* both empty, exits with code 2 and returns nothing; with exactly one of
\* them non-empty it returns a list and does not exit.
C6_ExactlyOneMode ==
    SearchReturned =>
        LET s == args.substring[1]
            p == args.pattern[1]
        IN IF (s # <<>>) = (p # <<>>)
           THEN pc = "done" /\ exit_code = 2 /\ SEARCH_RESULTS = None
           ELSE pc = "returned" /\ exit_code = -1 /\ SEARCH_RESULTS # None

C6_Witness ==
    /\ pc = "done" /\ exit_code = 2
    /\ args.substring[1] # <<>> /\ args.pattern[1] # <<>>

ParseMailReturned == pc \in {"header_search", "print"}

\* C7: parse_mail commits once, after its last INSERT: at most one commit
\* call is ever issued, no INSERT follows it, a returned parse_mail ended
\* with a successful commit, and until a commit succeeds the tables hold no
\* row of the run (so an aborted run leaves none).
C7_SingleBatchCommit ==
    /\ Cardinality(CallsOf("commit")) <= 1
    /\ \A i \in CallsOf("commit"), j \in CallsOf("insert") : j < i
    /\ pc = "header_search" => calls[Len(calls)] = Call("commit", "", "ok")
    /\ ParseMailReturned => Cardinality(CallsOf("commit")) = 1
    /\ (Connected /\ Call("commit", "", "ok") \notin {calls[j] : j \in DOMAIN calls})
           => (tbl_ips = EmptyTable /\ tbl_domains = EmptyTable)

C7_Witness ==
    /\ pc = "done" /\ exit_code = 1
    /\ Cardinality(CallsOf("insert")) >= 2
    /\ CallsOf("commit") = {}
    /\ tbl_ips = EmptyTable /\ tbl_domains = EmptyTable

Listed(kind, rows) ==
    LET lines == SelectSeq(stdout, LAMBDA l : l.kind = kind)
        V == {rows[i] : i \in DOMAIN rows}
    IN /\ Len(lines) = Cardinality(V)
       /\ {lines[i].text : i \in DOMAIN lines} = V
       /\ \A i, j \in DOMAIN lines :
            i < j => CountOf(rows, lines[i].text) >= CountOf(rows, lines[j].text)
       /\ IF \E v \in V : CountOf(rows, v) > 1
          THEN \A i \in DOMAIN lines : lines[i].count = CountOf(rows, lines[i].text)
          ELSE \A i \in DOMAIN lines : lines[i].count = 0

\* C8: after a successful run the console lists every distinct stored IP
\* and every distinct stored domain once, by descending count, with the
\* counts when some value of the table repeats and bare otherwise.
C8_OutputListsAll ==
    (pc = "done" /\ exit_code = 0) =>
        (Listed("ip", tbl_ips[1]) /\ Listed("domain", tbl_domains[1]))

OccursAt(text, i) ==
    /\ i + Len(Marker) <= Len(text)
    /\ \A k \in 1..Len(Marker) : text[i + k] = Marker[k]

MarkerPositions(text) == {i \in 0..Len(text) : OccursAt(text, i)}

BeforeFirstMarker(h, text) ==
    \E i \in MarkerPositions(text) :
        /\ \A j \in MarkerPositions(text) : i <= j
        /\ h = SubSeq(text, 1, i)

LastDropped(text) == SubSeq(text, 1, Len(text) - 1)

\* C9 as stated: get_header returns the text before the first marker; with
\* no marker it returns the document less its last character, and that is
\* never the whole document.
C9_HeaderNeverWhole ==
    pc = "got_header" =>
        LET text == mail_text[1]
        IN IF MarkerPositions(text) # {}
           THEN BeforeFirstMarker(head[1], text)
           ELSE head[1] = LastDropped(text) /\ head[1] # text

\* C9 amended: get_header returns the text before the first marker; with no
\* marker it returns the document less its last character, which is the
\* whole document exactly when the document is empty.
C9_HeaderPrefix ==
    pc = "got_header" =>
        LET text == mail_text[1]
        IN IF MarkerPositions(text) # {}
           THEN BeforeFirstMarker(head[1], text)
           ELSE /\ head[1] = LastDropped(text)
                /\ (head[1] = text) = (text = <<>>)

C9_Witness ==
    /\ pc = "got_header"
    /\ MarkerPositions(mail_text[1]) = {}
    /\ Len(mail_text[1]) > 1
    /\ Len(head[1]) = Len(mail_text[1]) - 1

HasDuplicate(rows) == \E i, j \in DOMAIN rows : i < j /\ rows[i] = rows[j]

\* C10: when parse_mail has returned, table ips holds one row per IPv4
\* match and then one per IPv6 match, and table domains one row per domain
\* match, in order of appearance, repeats included; and once the tables are
\* reset every step only appends to the stored rows.
C10_RowsAreMatches ==
    /\ [](ParseMailReturned =>
             /\ tbl_ips = Some(matches.ip_v4 \o matches.ip_v6)
             /\ tbl_domains = Some(matches.doms))
    /\ [][Connected =>
             /\ tbl_ips' # None /\ IsPrefix(tbl_ips[1], tbl_ips'[1])
             /\ tbl_domains' # None /\ IsPrefix(tbl_domains[1], tbl_domains'[1])]_vars

C10_Witness ==
    /\ ParseMailReturned
    /\ HasDuplicate(matches.ip_v4)
    /\ tbl_ips = Some(matches.ip_v4 \o matches.ip_v6)
    /\ Len(tbl_ips[1]) = 2
====
